---- MODULE Spec2Model ----
(***************************************************************************)
(* Model of the wristband sketch (src/wristbandAtomic/wristbandAtomic.ino):*)
(* setup(), loop(), the seven pulse functions and stopAllMotors(), run by  *)
(* one thread of control, against an environment made of the Wi-Fi link    *)
(* (the value WiFi.status() returns) and of TCP clients (the server's      *)
(* listen queue and the accepted connection).                              *)
(*                                                                         *)
(* Every digitalWrite, setPixelColor, show and delay of a pulse function   *)
(* is a step of its own; the environment may move between any two steps.   *)
(***************************************************************************)
EXTENDS Integers, Sequences, FiniteSets

\* ---------------------------------------------------------------- bounds
\* Connections the listen queue of the server holds before accept.
MaxBacklog == 1
\* Bytes a client has sent that the sketch has not read yet.
MaxRx == 1

\* ------------------------------------------------------ program constants
max_attempts == 20

Motors == 1..4

\* Command bytes a client may send: the seven commands and four others.
Bytes == {"1", "2", "3", "4", "5", "6", "7", "0", "8", "9", "R"}

\* pixel.Color(r, g, b)
Color(r, g, b) == <<r, g, b>>

\* The WiFiClient of loop(): live is its bool() value, avail the bytes
\* client.available() reports, open whether the peer still holds the
\* connection, reads the client.read() calls made on it, late whether the
\* peer connected while a motion sequence was executing.
NoClient == [live |-> FALSE, avail |-> 0, open |-> FALSE, reads |-> 0, late |-> FALSE]

VARIABLES
  pc,            \* position of control in setup() / loop()
  fn,            \* the pulse function control is inside, or "none"
  step,          \* index of the current block of fn (1 when fn = "none")
  ip,            \* statement of the block about to be executed (0 when fn = "none")
  motor,         \* level of MOTOR1_PIN .. MOTOR4_PIN
  pixelColor,    \* colour staged by pixel.setPixelColor
  led,           \* colour the NeoPixel shows (last pixel.show)
  debug_mode,    \* the debug toggle
  serialReady,   \* Serial has been begun and its port is ready (bool(Serial))
  serialOut,     \* last line printed by DebugLog ("" when none)
  wifiStatus,    \* what WiFi.status() returns
  attempt_count, \* local of the retry loops (0 outside them)
  wifiBegins,    \* WiFi.begin calls since the last disconnect-detection check
  serverStarted, \* server.begin() has been called
  backlog,       \* connections waiting in the listen queue
  client,        \* the WiFiClient of loop()
  c,             \* the byte read by client.read() ("" when none)
  trace          \* motors HIGH at each delay() of the running handler

vars == <<pc, fn, step, ip, motor, pixelColor, led, debug_mode, serialReady, serialOut,
          wifiStatus, attempt_count, wifiBegins, serverStarted, backlog,
          client, c, trace>>

\* ------------------------------------------------------------- the sketch

\* Faulty variant: the line is printed whatever debug_mode is.
DebugLog_always(message) == message

\* DebugLog(message): prints only in debug mode.
DebugLog(message) == IF debug_mode THEN message ELSE serialOut

\* One block of a pulse function: the four levels written to MOTOR1..4_PIN
\* and the colour given to the NeoPixel.
Block(l1, l2, l3, l4, col) == [pins |-> <<l1, l2, l3, l4>>, color |-> col]

upPulse == << Block("HIGH", "LOW", "LOW", "LOW", Color(255, 0, 0)) >>

rightPulse == << Block("LOW", "HIGH", "LOW", "LOW", Color(0, 255, 0)) >>

leftPulse == << Block("LOW", "LOW", "HIGH", "LOW", Color(0, 0, 255)) >>

downPulse == << Block("LOW", "LOW", "LOW", "HIGH", Color(255, 255, 0)) >>

\* Faulty variant: the motors pulsed in pin order 1, 2, 3, 4.
clockwisePulse_pinOrder ==
  << Block("HIGH", "LOW", "LOW", "LOW", Color(255, 0, 0)),
     Block("LOW", "HIGH", "LOW", "LOW", Color(0, 255, 0)),
     Block("LOW", "LOW", "HIGH", "LOW", Color(0, 0, 255)),
     Block("LOW", "LOW", "LOW", "HIGH", Color(255, 255, 0)) >>

clockwisePulse ==
  << Block("HIGH", "LOW", "LOW", "LOW", Color(255, 0, 0)),
     Block("LOW", "HIGH", "LOW", "LOW", Color(0, 255, 0)),
     Block("LOW", "LOW", "LOW", "HIGH", Color(255, 255, 0)),
     Block("LOW", "LOW", "HIGH", "LOW", Color(0, 0, 255)) >>

\* Faulty variant: the last block drives motor 3 again instead of motor 2.
counterClockwisePulse_repeat3 ==
  << Block("HIGH", "LOW", "LOW", "LOW", Color(255, 0, 0)),
     Block("LOW", "LOW", "HIGH", "LOW", Color(0, 0, 255)),
     Block("LOW", "LOW", "LOW", "HIGH", Color(255, 255, 0)),
     Block("LOW", "LOW", "HIGH", "LOW", Color(0, 255, 0)) >>

counterClockwisePulse ==
  << Block("HIGH", "LOW", "LOW", "LOW", Color(255, 0, 0)),
     Block("LOW", "LOW", "HIGH", "LOW", Color(0, 0, 255)),
     Block("LOW", "LOW", "LOW", "HIGH", Color(255, 255, 0)),
     Block("LOW", "HIGH", "LOW", "LOW", Color(0, 255, 0)) >>

allMotorsPulse == << Block("HIGH", "HIGH", "HIGH", "HIGH", Color(0, 255, 255)) >>

\* The blocks of a pulse function; stopAllMotors has none of its own.
Body(f) ==
  CASE f = "upPulse" -> upPulse
    [] f = "rightPulse" -> rightPulse
    [] f = "leftPulse" -> leftPulse
    [] f = "downPulse" -> downPulse
    [] f = "clockwisePulse" -> clockwisePulse
    [] f = "counterClockwisePulse" -> counterClockwisePulse
    [] f = "allMotorsPulse" -> allMotorsPulse
    [] OTHER -> << >>

\* Faulty variant: the cases '2' and '3' exchanged.
Dispatch_swapped(b) ==
  CASE b = "1" -> "upPulse"
    [] b = "2" -> "leftPulse"
    [] b = "3" -> "rightPulse"
    [] b = "4" -> "downPulse"
    [] b = "5" -> "clockwisePulse"
    [] b = "6" -> "counterClockwisePulse"
    [] b = "7" -> "allMotorsPulse"
    [] OTHER -> "stopAllMotors"

\* switch (c) of loop()
Dispatch(b) ==
  CASE b = "1" -> "upPulse"
    [] b = "2" -> "rightPulse"
    [] b = "3" -> "leftPulse"
    [] b = "4" -> "downPulse"
    [] b = "5" -> "clockwisePulse"
    [] b = "6" -> "counterClockwisePulse"
    [] b = "7" -> "allMotorsPulse"
    [] OTHER -> "stopAllMotors"

\* Statements of a block, by ip:
\*   1..4   digitalWrite(MOTORn_PIN, level)       (the on-phase writes)
\*   5      pixel.setPixelColor(0, colour)
\*   6      pixel.show()
\*   7      delay(DURATION_ON)
\*   8..11  stopAllMotors: digitalWrite(MOTORn_PIN, LOW)
\*   12     stopAllMotors: pixel.setPixelColor(0, white)
\*   13     stopAllMotors: pixel.show(); DebugLog
\*   14     delay(DURATION_OFF)
\* A direct call of stopAllMotors runs statements 8..13.
FirstIp(f) == IF f = "stopAllMotors" THEN 8 ELSE 1

\* First DebugLog line of a pulse function.
StartMessage(f) ==
  CASE f = "upPulse" -> "Starting Up Pulse (Motor 1)..."
    [] f = "rightPulse" -> "Starting Right Pulse (Motor 2)..."
    [] f = "leftPulse" -> "Starting Left Pulse (Motor 3)..."
    [] f = "downPulse" -> "Starting Down Pulse (Motor 4)..."
    [] f = "clockwisePulse" -> "Starting Clockwise Sequence..."
    [] f = "counterClockwisePulse" -> "Starting Counterclockwise Sequence..."
    [] OTHER -> "Starting All Motors Pulse (all motors)..."

\* Faulty variant: stopAllMotors inverts the level of every pin.
StopLevel_toggle(m) == IF motor[m] = "HIGH" THEN "LOW" ELSE "HIGH"

\* Faulty variant: stopAllMotors leaves MOTOR3_PIN as it is.
StopLevel_keeps3(m) == IF m = 3 THEN motor[3] ELSE "LOW"

\* Level stopAllMotors writes to every motor pin.
StopLevel(m) == "LOW"

\* Faulty variant: stopAllMotors turns the NeoPixel off instead of white.
StopColor_off == Color(0, 0, 0)

\* Colour stopAllMotors gives the NeoPixel.
StopColor == Color(255, 255, 255)

\* Where control continues when the called function returns.
ReturnTo(p) == IF p = "setup_stop" THEN "setup_begin" ELSE "loop_flush"

HighMotors == {m \in Motors : motor[m] = "HIGH"}

TypeOK ==
  /\ pc \in {"setup_init", "setup_stop", "setup_begin", "setup_while", "setup_body",
             "setup_delay", "setup_if", "setup_show",
             "loop_accept", "loop_connected", "loop_available", "loop_read",
             "loop_switch", "loop_flush", "loop_stop", "loop_wifi", "loop_begin",
             "loop_while", "loop_body", "loop_delay", "loop_if", "loop_show",
             "led_setup_begin", "led_setup_while", "led_setup_body", "led_setup_delay",
             "led_setup_if", "led_setup_show", "led_accept", "led_connected",
             "led_available", "led_read", "led_stop", "led_wifi", "led_begin",
             "led_while", "led_body", "led_delay", "led_if", "led_show"}
  /\ fn \in {"none", "stopAllMotors", "upPulse", "rightPulse", "leftPulse", "downPulse",
             "clockwisePulse", "counterClockwisePulse", "allMotorsPulse"}
  /\ step \in 1..4
  /\ ip \in 0..14
  /\ motor \in [Motors -> {"LOW", "HIGH"}]
  /\ debug_mode \in BOOLEAN
  /\ serialReady \in BOOLEAN
  /\ wifiStatus \in {"WL_CONNECTED", "WL_DISCONNECTED"}
  /\ attempt_count \in 0..max_attempts
  /\ serverStarted \in BOOLEAN
  /\ Len(backlog) <= MaxBacklog
  /\ c \in Bytes \cup {"G", "B", "r", ""}

Init ==
  /\ pc = "setup_init"
  /\ fn = "none"
  /\ step = 1
  /\ ip = 0
  /\ motor = [m \in Motors |-> "LOW"]
  /\ pixelColor = Color(0, 0, 0)
  /\ led = Color(0, 0, 0)
  /\ debug_mode = FALSE
  /\ serialReady = FALSE
  /\ serialOut = ""
  /\ wifiStatus = "WL_DISCONNECTED"
  /\ attempt_count = 0
  /\ wifiBegins = 0
  /\ serverStarted = FALSE
  /\ backlog = << >>
  /\ client = NoClient
  /\ c = ""
  /\ trace = << >>

\* ------------------------------------------------- the called functions

Return ==
  /\ fn' = "none"
  /\ step' = 1
  /\ ip' = 0
  /\ pc' = ReturnTo(pc)

\* digitalWrite(MOTORn_PIN, level), the writes that open a block
DigitalWrite ==
  /\ fn # "none"
  /\ ip \in 1..4
  /\ motor' = [motor EXCEPT ![ip] = Body(fn)[step].pins[ip]]
  /\ ip' = ip + 1
  /\ serialOut' = IF ip = 1 /\ step = 1 THEN DebugLog(StartMessage(fn)) ELSE serialOut
  /\ UNCHANGED <<pc, fn, step, pixelColor, led, debug_mode, serialReady, wifiStatus, attempt_count,
                 wifiBegins, serverStarted, backlog, client, c, trace>>

\* pixel.setPixelColor(0, colour of the block)
SetPixelColor ==
  /\ fn # "none"
  /\ ip = 5
  /\ pixelColor' = Body(fn)[step].color
  /\ ip' = 6
  /\ UNCHANGED <<pc, fn, step, motor, led, debug_mode, serialReady, serialOut, wifiStatus,
                 attempt_count, wifiBegins, serverStarted, backlog, client, c, trace>>

\* Faulty variant: the colour is staged but pixel.show() is left out.
Show_missing ==
  /\ fn # "none"
  /\ ip = 6
  /\ ip' = 7
  /\ UNCHANGED <<pc, fn, step, motor, pixelColor, led, debug_mode, serialReady, serialOut,
                 wifiStatus, attempt_count, wifiBegins, serverStarted, backlog, client,
                 c, trace>>

\* pixel.show()
Show ==
  /\ fn # "none"
  /\ ip = 6
  /\ led' = pixelColor
  /\ ip' = 7
  /\ UNCHANGED <<pc, fn, step, motor, pixelColor, debug_mode, serialReady, serialOut, wifiStatus,
                 attempt_count, wifiBegins, serverStarted, backlog, client, c, trace>>

\* delay(DURATION_ON)
DelayOn ==
  /\ fn # "none"
  /\ ip = 7
  /\ trace' = Append(trace, HighMotors)
  /\ ip' = 8
  /\ UNCHANGED <<pc, fn, step, motor, pixelColor, led, debug_mode, serialReady, serialOut, wifiStatus,
                 attempt_count, wifiBegins, serverStarted, backlog, client, c>>

\* Faulty variant: stopAllMotors leaves MOTOR4_PIN as it is.
StopWrite_skips4 ==
  /\ fn # "none"
  /\ ip \in 8..11
  /\ motor' = IF ip = 11 THEN motor ELSE [motor EXCEPT ![ip - 7] = StopLevel(ip - 7)]
  /\ ip' = ip + 1
  /\ UNCHANGED <<pc, fn, step, pixelColor, led, debug_mode, serialReady, serialOut, wifiStatus,
                 attempt_count, wifiBegins, serverStarted, backlog, client, c, trace>>

\* stopAllMotors: digitalWrite(MOTORn_PIN, LOW)
StopWrite ==
  /\ fn # "none"
  /\ ip \in 8..11
  /\ motor' = [motor EXCEPT ![ip - 7] = StopLevel(ip - 7)]
  /\ ip' = ip + 1
  /\ UNCHANGED <<pc, fn, step, pixelColor, led, debug_mode, serialReady, serialOut, wifiStatus,
                 attempt_count, wifiBegins, serverStarted, backlog, client, c, trace>>

\* stopAllMotors: pixel.setPixelColor(0, white)
StopSetColor ==
  /\ fn # "none"
  /\ ip = 12
  /\ pixelColor' = StopColor
  /\ ip' = 13
  /\ UNCHANGED <<pc, fn, step, motor, led, debug_mode, serialReady, serialOut, wifiStatus,
                 attempt_count, wifiBegins, serverStarted, backlog, client, c, trace>>

\* stopAllMotors: pixel.show(); DebugLog; return. A pulse function goes on
\* to its delay(DURATION_OFF); a direct call returns to the caller.
StopShow ==
  /\ fn # "none"
  /\ ip = 13
  /\ led' = pixelColor
  /\ serialOut' = DebugLog("All motors stopped.")
  /\ IF fn = "stopAllMotors"
       THEN Return
       ELSE ip' = 14 /\ UNCHANGED <<pc, fn, step>>
  /\ UNCHANGED <<motor, pixelColor, debug_mode, serialReady, wifiStatus, attempt_count, wifiBegins,
                 serverStarted, backlog, client, c, trace>>

\* Faulty variant: the wait gives up the sequence when the peer has sent
\* another byte.
DelayOff_cancellable ==
  /\ fn # "none"
  /\ ip = 14
  /\ trace' = Append(trace, HighMotors)
  /\ IF step < Len(Body(fn)) /\ client.avail = 0
       THEN step' = step + 1 /\ ip' = 1 /\ UNCHANGED <<pc, fn>>
       ELSE Return
  /\ UNCHANGED <<motor, pixelColor, led, debug_mode, serialReady, serialOut, wifiStatus, attempt_count,
                 wifiBegins, serverStarted, backlog, client, c>>

\* Faulty variant: the wait polls the server and takes over a waiting
\* connection.
DelayOff_polling ==
  /\ fn # "none"
  /\ ip = 14
  /\ trace' = Append(trace, HighMotors)
  /\ IF step < Len(Body(fn))
       THEN step' = step + 1 /\ ip' = 1 /\ UNCHANGED <<pc, fn>>
       ELSE Return
  /\ IF backlog # << >>
       THEN /\ client' = [live |-> TRUE, avail |-> backlog[1].avail, open |-> TRUE,
                          reads |-> 0, late |-> backlog[1].late]
            /\ backlog' = SubSeq(backlog, 2, Len(backlog))
       ELSE UNCHANGED <<client, backlog>>
  /\ UNCHANGED <<motor, pixelColor, led, debug_mode, serialReady, serialOut, wifiStatus, attempt_count,
                 wifiBegins, serverStarted, c>>

\* delay(DURATION_OFF), then the next block of the function or its return
DelayOff ==
  /\ fn # "none"
  /\ ip = 14
  /\ trace' = Append(trace, HighMotors)
  /\ IF step < Len(Body(fn))
       THEN step' = step + 1 /\ ip' = 1 /\ UNCHANGED <<pc, fn>>
       ELSE Return
  /\ UNCHANGED <<motor, pixelColor, led, debug_mode, serialReady, serialOut, wifiStatus, attempt_count,
                 wifiBegins, serverStarted, backlog, client, c>>

\* ------------------------------------------------------------- setup()

\* A motion sequence (one of the seven pulse functions) is executing.
InSequence == pc = "loop_switch" /\ fn \notin {"none", "stopAllMotors"}

\* Faulty variant: setup() goes on without waiting for Serial.
SerialWaitOver_noWait == TRUE

\* if (debug_mode) { Serial.begin(115200); while (!Serial) delay(10); }
\* is passed: at once when debug_mode is false, else once Serial is ready.
SerialWaitOver == debug_mode => serialReady

\* setup() up to its call of stopAllMotors. debug_mode is false in the
\* sketch, so Serial is neither begun nor waited for there.
SetupInit ==
  /\ pc = "setup_init"
  /\ SerialWaitOver
  /\ serialOut' = DebugLog("Initiating Motors")
  /\ pc' = "setup_stop"
  /\ fn' = "stopAllMotors"
  /\ step' = 1
  /\ ip' = FirstIp("stopAllMotors")
  /\ UNCHANGED <<motor, pixelColor, led, debug_mode, serialReady, wifiStatus, attempt_count,
                 wifiBegins, serverStarted, backlog, client, c, trace>>

\* WiFi.begin(ssid, password); int attempt_count = 0;
WiFiBegin(here, next) ==
  /\ pc = here
  /\ fn = "none"
  /\ wifiBegins' = wifiBegins + 1
  /\ attempt_count' = 0
  /\ pc' = next
  /\ UNCHANGED <<fn, step, ip, motor, pixelColor, led, debug_mode, serialReady, serialOut, wifiStatus,
                 serverStarted, backlog, client, c, trace>>

\* Faulty variant: the bound is tested with <=, one attempt too many.
RetryCondition_offByOne == wifiStatus # "WL_CONNECTED" /\ attempt_count <= max_attempts

\* The condition of the retry loop.
RetryCondition == wifiStatus # "WL_CONNECTED" /\ attempt_count < max_attempts

\* while (WiFi.status() != WL_CONNECTED && attempt_count < max_attempts)
RetryWhile(here, body, after) ==
  /\ pc = here
  /\ pc' = IF RetryCondition THEN body ELSE after
  /\ UNCHANGED <<fn, step, ip, motor, pixelColor, led, debug_mode, serialReady, serialOut, wifiStatus,
                 attempt_count, wifiBegins, serverStarted, backlog, client, c, trace>>

\* Colour shown while a join is being attempted.
ConnectingColor == Color(255, 255, 0)

\* pixel.setPixelColor(0, yellow); pixel.show(); DebugLog(message);
RetryBody(here, next, message) ==
  /\ pc = here
  /\ pixelColor' = ConnectingColor
  /\ led' = ConnectingColor
  /\ serialOut' = DebugLog(message)
  /\ pc' = next
  /\ UNCHANGED <<fn, step, ip, motor, debug_mode, serialReady, wifiStatus, attempt_count, wifiBegins,
                 serverStarted, backlog, client, c, trace>>

\* delay(500); attempt_count++;
RetryDelay(here, next) ==
  /\ pc = here
  /\ attempt_count' = attempt_count + 1
  /\ pc' = next
  /\ UNCHANGED <<fn, step, ip, motor, pixelColor, led, debug_mode, serialReady, serialOut, wifiStatus,
                 wifiBegins, serverStarted, backlog, client, c, trace>>

\* Faulty variant: a failed join leaves the connecting colour.
ResultColor_noRed(status) ==
  IF status = "WL_CONNECTED" THEN Color(0, 255, 0) ELSE Color(255, 255, 0)

\* Colour staged after the retry loop, from the status read there.
ResultColor(status) ==
  IF status = "WL_CONNECTED" THEN Color(0, 255, 0) ELSE Color(255, 0, 0)

\* if (WiFi.status() == WL_CONNECTED) { green [; server.begin()] } else { red }
RetryIf(here, next, startsServer, okMessage, failMessage) ==
  /\ pc = here
  /\ pixelColor' = ResultColor(wifiStatus)
  /\ serverStarted' = (serverStarted \/ (startsServer /\ wifiStatus = "WL_CONNECTED"))
  /\ serialOut' = DebugLog(IF wifiStatus = "WL_CONNECTED" THEN okMessage ELSE failMessage)
  /\ pc' = next
  /\ UNCHANGED <<fn, step, ip, motor, led, debug_mode, serialReady, wifiStatus, attempt_count,
                 wifiBegins, backlog, client, c, trace>>

\* pixel.show(); delay(...); the block ends and attempt_count goes out of scope.
RetryShow(here, next) ==
  /\ pc = here
  /\ led' = pixelColor
  /\ attempt_count' = 0
  /\ pc' = next
  /\ UNCHANGED <<fn, step, ip, motor, pixelColor, debug_mode, serialReady, serialOut, wifiStatus,
                 wifiBegins, serverStarted, backlog, client, c, trace>>

SetupBegin == WiFiBegin("setup_begin", "setup_while")

SetupWhile == RetryWhile("setup_while", "setup_body", "setup_if")

SetupBody == RetryBody("setup_body", "setup_delay", "Attempting to connect...")

SetupDelay == RetryDelay("setup_delay", "setup_while")

SetupIf == RetryIf("setup_if", "setup_show", TRUE, "Server started.",
                   "Failed to connect to Wi-Fi.")

SetupShow == RetryShow("setup_show", "loop_accept")

\* -------------------------------------------------------------- loop()

\* WiFiClient client = server.available(); if (client) { ...
\* A server that was never begun has no client to give.
LoopAccept ==
  /\ pc = "loop_accept"
  /\ IF serverStarted /\ backlog # << >>
       THEN /\ client' = [live |-> TRUE, avail |-> Head(backlog).avail, open |-> TRUE,
                          reads |-> 0, late |-> Head(backlog).late]
            /\ backlog' = Tail(backlog)
            /\ serialOut' = DebugLog("Client connected.")
            /\ pc' = "loop_connected"
       ELSE /\ pc' = "loop_wifi"
            /\ UNCHANGED <<client, backlog, serialOut>>
  /\ UNCHANGED <<fn, step, ip, motor, pixelColor, led, debug_mode, serialReady, wifiStatus,
                 attempt_count, wifiBegins, serverStarted, c, trace>>

\* What client.connected() may return: true while the peer holds the
\* connection, false once it has closed and nothing is left to read; with
\* the peer gone and bytes still buffered the library may answer either.
Connected(cl) ==
  IF cl.open THEN {TRUE} ELSE IF cl.avail > 0 THEN {TRUE, FALSE} ELSE {FALSE}

\* while (client.connected())
LoopConnected ==
  /\ pc = "loop_connected"
  /\ \E r \in Connected(client) : pc' = IF r THEN "loop_available" ELSE "loop_stop"
  /\ UNCHANGED <<fn, step, ip, motor, pixelColor, led, debug_mode, serialReady, serialOut, wifiStatus,
                 attempt_count, wifiBegins, serverStarted, backlog, client, c, trace>>

\* if (client.available())
LoopAvailable ==
  /\ pc = "loop_available"
  /\ pc' = IF client.avail > 0 THEN "loop_read" ELSE "loop_connected"
  /\ UNCHANGED <<fn, step, ip, motor, pixelColor, led, debug_mode, serialReady, serialOut, wifiStatus,
                 attempt_count, wifiBegins, serverStarted, backlog, client, c, trace>>

\* char c = client.read(); switch (c) { case ...: call }
LoopRead ==
  /\ pc = "loop_read"
  /\ \E b \in Bytes :
       /\ c' = b
       /\ fn' = Dispatch(b)
       /\ ip' = FirstIp(Dispatch(b))
       /\ serialOut' = DebugLog(IF Dispatch(b) = "stopAllMotors"
                                  THEN "Invalid command received. Stopping all motors."
                                  ELSE "Received command:")
  /\ client' = [client EXCEPT !.avail = @ - 1, !.reads = @ + 1]
  /\ step' = 1
  /\ trace' = << >>
  /\ pc' = "loop_switch"
  /\ UNCHANGED <<motor, pixelColor, led, debug_mode, serialReady, wifiStatus, attempt_count,
                 wifiBegins, serverStarted, backlog>>

\* Faulty variant: the break is missing, control returns to the while.
LoopFlush_noBreak ==
  /\ pc = "loop_flush"
  /\ pc' = "loop_connected"
  /\ UNCHANGED <<fn, step, ip, motor, pixelColor, led, debug_mode, serialReady, serialOut, wifiStatus,
                 attempt_count, wifiBegins, serverStarted, backlog, client, c, trace>>

\* client.flush(); break;   (flush discards what the peer sent and was not read)
LoopFlush ==
  /\ pc = "loop_flush"
  /\ client' = [client EXCEPT !.avail = 0]
  /\ pc' = "loop_stop"
  /\ UNCHANGED <<fn, step, ip, motor, pixelColor, led, debug_mode, serialReady, serialOut, wifiStatus,
                 attempt_count, wifiBegins, serverStarted, backlog, c, trace>>

\* delay(10); client.stop(); and the block of if (client) ends
LoopStop ==
  /\ pc = "loop_stop"
  /\ client' = NoClient
  /\ c' = ""
  /\ trace' = << >>
  /\ serialOut' = DebugLog("Client disconnected.")
  /\ pc' = "loop_wifi"
  /\ UNCHANGED <<fn, step, ip, motor, pixelColor, led, debug_mode, serialReady, wifiStatus,
                 attempt_count, wifiBegins, serverStarted, backlog>>

\* if (WiFi.status() != WL_CONNECTED) { red; show; ... } delay(5);
LoopWifi ==
  /\ pc = "loop_wifi"
  /\ wifiBegins' = 0
  /\ IF wifiStatus # "WL_CONNECTED"
       THEN /\ pixelColor' = Color(255, 0, 0)
            /\ led' = Color(255, 0, 0)
            /\ serialOut' = DebugLog("Wi-Fi disconnected. Attempting to reconnect...")
            /\ pc' = "loop_begin"
       ELSE /\ pc' = "loop_accept"
            /\ UNCHANGED <<pixelColor, led, serialOut>>
  /\ UNCHANGED <<fn, step, ip, motor, debug_mode, serialReady, wifiStatus, attempt_count,
                 serverStarted, backlog, client, c, trace>>

LoopBegin == WiFiBegin("loop_begin", "loop_while")

LoopWhile == RetryWhile("loop_while", "loop_body", "loop_if")

LoopBody == RetryBody("loop_body", "loop_delay", "Reconnecting...")

LoopDelay == RetryDelay("loop_delay", "loop_while")

LoopIf == RetryIf("loop_if", "loop_show", FALSE, "Reconnected to Wi-Fi!",
                  "Failed to reconnect to Wi-Fi.")

LoopShow == RetryShow("loop_show", "loop_accept")

\* -------------------------------------------------------- the environment

\* The station joins the network (only once WiFi.begin has been called).
WiFiUp ==
  /\ pc \notin {"setup_init", "setup_stop", "setup_begin", "led_setup_begin"}
  /\ wifiStatus = "WL_DISCONNECTED"
  /\ wifiStatus' = "WL_CONNECTED"
  /\ UNCHANGED <<pc, fn, step, ip, motor, pixelColor, led, debug_mode, serialReady, serialOut,
                 attempt_count, wifiBegins, serverStarted, backlog, client, c, trace>>

\* The station loses the network.
WiFiDown ==
  /\ wifiStatus = "WL_CONNECTED"
  /\ wifiStatus' = "WL_DISCONNECTED"
  /\ UNCHANGED <<pc, fn, step, ip, motor, pixelColor, led, debug_mode, serialReady, serialOut,
                 attempt_count, wifiBegins, serverStarted, backlog, client, c, trace>>

\* A peer connects to the listening server and sends n bytes; the
\* connection waits in the listen queue until loop() accepts it.
ClientConnect ==
  /\ serverStarted
  /\ wifiStatus = "WL_CONNECTED"
  /\ Len(backlog) < MaxBacklog
  /\ \E n \in 0..MaxRx : backlog' = Append(backlog, [avail |-> n, late |-> InSequence])
  /\ UNCHANGED <<pc, fn, step, ip, motor, pixelColor, led, debug_mode, serialReady, serialOut,
                 wifiStatus, attempt_count, wifiBegins, serverStarted, client, c, trace>>

\* The peer of the accepted connection sends one more byte.
ClientSend ==
  /\ client.live
  /\ client.open
  /\ client.avail < MaxRx
  /\ client' = [client EXCEPT !.avail = @ + 1]
  /\ UNCHANGED <<pc, fn, step, ip, motor, pixelColor, led, debug_mode, serialReady, serialOut,
                 wifiStatus, attempt_count, wifiBegins, serverStarted, backlog, c, trace>>

\* The peer of the accepted connection closes it.
ClientClose ==
  /\ client.live
  /\ client.open
  /\ client' = [client EXCEPT !.open = FALSE]
  /\ UNCHANGED <<pc, fn, step, ip, motor, pixelColor, led, debug_mode, serialReady, serialOut,
                 wifiStatus, attempt_count, wifiBegins, serverStarted, backlog, c, trace>>

\* ------------------------------------------------------- specifications

Program ==
  \/ SetupInit \/ SetupBegin \/ SetupWhile \/ SetupBody \/ SetupDelay \/ SetupIf
  \/ SetupShow
  \/ LoopAccept \/ LoopConnected \/ LoopAvailable \/ LoopRead \/ LoopFlush \/ LoopStop
  \/ LoopWifi \/ LoopBegin \/ LoopWhile \/ LoopBody \/ LoopDelay \/ LoopIf \/ LoopShow
  \/ DigitalWrite \/ SetPixelColor \/ Show \/ DelayOn
  \/ StopWrite \/ StopSetColor \/ StopShow \/ DelayOff

Environment == WiFiUp \/ WiFiDown \/ ClientConnect \/ ClientSend \/ ClientClose

Next == Program \/ Environment

Spec == Init /\ [][Next]_vars

\* The sketch is the only thread of control: whenever it can take a step
\* it eventually does.
FairSpec == Spec /\ WF_vars(Program)

\* ------------------------------------------- the sketch in debug mode

\* The port of Serial, begun by setup() in debug mode, becomes ready (a
\* serial monitor opens it) while setup() polls it.
SerialUp ==
  /\ debug_mode
  /\ pc = "setup_init"
  /\ ~serialReady
  /\ serialReady' = TRUE
  /\ UNCHANGED <<pc, fn, step, ip, motor, pixelColor, led, debug_mode, serialOut,
                 wifiStatus, attempt_count, wifiBegins, serverStarted, backlog,
                 client, c, trace>>

\* The sketch built with debug_mode set either way.
DebugInit ==
  /\ pc = "setup_init"
  /\ fn = "none"
  /\ step = 1
  /\ ip = 0
  /\ motor = [m \in Motors |-> "LOW"]
  /\ pixelColor = Color(0, 0, 0)
  /\ led = Color(0, 0, 0)
  /\ debug_mode \in BOOLEAN
  /\ serialReady = FALSE
  /\ serialOut = ""
  /\ wifiStatus = "WL_DISCONNECTED"
  /\ attempt_count = 0
  /\ wifiBegins = 0
  /\ serverStarted = FALSE
  /\ backlog = << >>
  /\ client = NoClient
  /\ c = ""
  /\ trace = << >>

DebugNext == Program \/ Environment \/ SerialUp

DebugSpec == DebugInit /\ [][DebugNext]_vars

\* ------------------------------- the LED-control sketch (part_000)
\* The sketch of src/unnamed/part_000: the same join and rejoin loops and
\* the same accept loop, the byte read setting the NeoPixel colour.

\* Bytes a client may send to the LED-control sketch.
LedBytes == {"R", "G", "B", "r", "1", "9"}

\* Faulty variant: 'G' and 'B' give each other's colour.
LedColor_swapped(b) ==
  CASE b = "R" -> Color(255, 0, 0)
    [] b = "G" -> Color(0, 0, 255)
    [] b = "B" -> Color(0, 255, 0)

\* Colour set for the bytes 'R', 'G' and 'B'.
LedColor(b) ==
  CASE b = "R" -> Color(255, 0, 0)
    [] b = "G" -> Color(0, 255, 0)
    [] b = "B" -> Color(0, 0, 255)

\* State when setup() of the sketch reaches WiFi.begin: the NeoPixel is
\* initialised and dark, debug_mode is false.
LedInit ==
  /\ pc = "led_setup_begin"
  /\ fn = "none"
  /\ step = 1
  /\ ip = 0
  /\ motor = [m \in Motors |-> "LOW"]
  /\ pixelColor = Color(0, 0, 0)
  /\ led = Color(0, 0, 0)
  /\ debug_mode = FALSE
  /\ serialReady = FALSE
  /\ serialOut = ""
  /\ wifiStatus = "WL_DISCONNECTED"
  /\ attempt_count = 0
  /\ wifiBegins = 0
  /\ serverStarted = FALSE
  /\ backlog = << >>
  /\ client = NoClient
  /\ c = ""
  /\ trace = << >>

LedSetupBegin == WiFiBegin("led_setup_begin", "led_setup_while")

LedSetupWhile == RetryWhile("led_setup_while", "led_setup_body", "led_setup_if")

LedSetupBody == RetryBody("led_setup_body", "led_setup_delay", "Attempting to connect...")

LedSetupDelay == RetryDelay("led_setup_delay", "led_setup_while")

LedSetupIf == RetryIf("led_setup_if", "led_setup_show", TRUE, "Server started.",
                      "Failed to connect to Wi-Fi.")

LedSetupShow == RetryShow("led_setup_show", "led_accept")

\* WiFiClient client = server.available(); if (client) { ...
LedAccept ==
  /\ pc = "led_accept"
  /\ IF serverStarted /\ backlog # << >>
       THEN /\ client' = [live |-> TRUE, avail |-> Head(backlog).avail, open |-> TRUE,
                          reads |-> 0, late |-> Head(backlog).late]
            /\ backlog' = Tail(backlog)
            /\ serialOut' = DebugLog("Client connected.")
            /\ pc' = "led_connected"
       ELSE /\ pc' = "led_wifi"
            /\ UNCHANGED <<client, backlog, serialOut>>
  /\ UNCHANGED <<fn, step, ip, motor, pixelColor, led, debug_mode, serialReady, wifiStatus,
                 attempt_count, wifiBegins, serverStarted, c, trace>>

\* while (client.connected())
LedConnected ==
  /\ pc = "led_connected"
  /\ \E r \in Connected(client) : pc' = IF r THEN "led_available" ELSE "led_stop"
  /\ UNCHANGED <<fn, step, ip, motor, pixelColor, led, debug_mode, serialReady, serialOut,
                 wifiStatus, attempt_count, wifiBegins, serverStarted, backlog, client,
                 c, trace>>

\* if (client.available())
LedAvailable ==
  /\ pc = "led_available"
  /\ pc' = IF client.avail > 0 THEN "led_read" ELSE "led_connected"
  /\ UNCHANGED <<fn, step, ip, motor, pixelColor, led, debug_mode, serialReady, serialOut,
                 wifiStatus, attempt_count, wifiBegins, serverStarted, backlog, client,
                 c, trace>>

\* char c = client.read(); the if chain on 'R', 'G', 'B' (setPixelColor and
\* show) or the warning; pixel.show(); delay(10); client.flush(); break;
LedRead ==
  /\ pc = "led_read"
  /\ \E b \in LedBytes :
       /\ c' = b
       /\ pixelColor' = IF b \in {"R", "G", "B"} THEN LedColor(b) ELSE pixelColor
       /\ serialOut' = DebugLog("Color update sent to NeoPixel.")
  /\ led' = pixelColor'
  /\ client' = [client EXCEPT !.avail = 0, !.reads = @ + 1]
  /\ pc' = "led_stop"
  /\ UNCHANGED <<fn, step, ip, motor, debug_mode, serialReady, wifiStatus, attempt_count,
                 wifiBegins, serverStarted, backlog, trace>>

\* delay(10); client.stop();
LedStop ==
  /\ pc = "led_stop"
  /\ client' = NoClient
  /\ c' = ""
  /\ serialOut' = DebugLog("Client disconnected.")
  /\ pc' = "led_wifi"
  /\ UNCHANGED <<fn, step, ip, motor, pixelColor, led, debug_mode, serialReady, wifiStatus,
                 attempt_count, wifiBegins, serverStarted, backlog, trace>>

\* if (WiFi.status() != WL_CONNECTED) { red; show; ... } delay(500);
LedWifi ==
  /\ pc = "led_wifi"
  /\ wifiBegins' = 0
  /\ IF wifiStatus # "WL_CONNECTED"
       THEN /\ pixelColor' = Color(255, 0, 0)
            /\ led' = Color(255, 0, 0)
            /\ serialOut' = DebugLog("Wi-Fi disconnected. Attempting to reconnect...")
            /\ pc' = "led_begin"
       ELSE /\ pc' = "led_accept"
            /\ UNCHANGED <<pixelColor, led, serialOut>>
  /\ UNCHANGED <<fn, step, ip, motor, debug_mode, serialReady, wifiStatus, attempt_count,
                 serverStarted, backlog, client, c, trace>>

LedBegin == WiFiBegin("led_begin", "led_while")

LedWhile == RetryWhile("led_while", "led_body", "led_if")

LedBody == RetryBody("led_body", "led_delay", "Reconnecting...")

LedDelay == RetryDelay("led_delay", "led_while")

LedIf == RetryIf("led_if", "led_show", FALSE, "Reconnected to Wi-Fi!",
                 "Failed to reconnect to Wi-Fi.")

LedShow == RetryShow("led_show", "led_accept")

LedProgram ==
  \/ LedSetupBegin \/ LedSetupWhile \/ LedSetupBody \/ LedSetupDelay \/ LedSetupIf
  \/ LedSetupShow
  \/ LedAccept \/ LedConnected \/ LedAvailable \/ LedRead \/ LedStop
  \/ LedWifi \/ LedBegin \/ LedWhile \/ LedBody \/ LedDelay \/ LedIf \/ LedShow

LedNext == LedProgram \/ Environment

LedSpec == LedInit /\ [][LedNext]_vars

\* ----------------------------------------------------------------- claims

PulseFunctions == {"upPulse", "rightPulse", "leftPulse", "downPulse", "clockwisePulse",
                   "counterClockwisePulse", "allMotorsPulse"}

\* A command byte is being handled: from the switch to the end of the
\* statement after it.
Handling == pc \in {"loop_switch", "loop_flush"}

IsPrefix(t, e) == Len(t) <= Len(e) /\ \A i \in 1..Len(t) : t[i] = e[i]

\* C1: outside the pulse functions (the handler has returned, or control is
\* in setup(), in loop() or in a direct call of stopAllMotors) all four
\* motor outputs are LOW; a motor is HIGH only inside a pulse function.
C1_MotorsLowOutsidePulse == fn \notin PulseFunctions => HighMotors = {}

\* The handler of '7' has returned and the four motors it drove are LOW.
C1_Witness == pc = "loop_flush" /\ c = "7" /\ Len(trace) = 2 /\ HighMotors = {}

C2_Motors(b) ==
  CASE b = "1" -> {1} [] b = "2" -> {2} [] b = "3" -> {3} [] b = "4" -> {4}
    [] b = "7" -> {1, 2, 3, 4}

\* C2: for the bytes '1','2','3','4','7' the motors HIGH during the
\* on-phase wait are exactly {1},{2},{3},{4},{1,2,3,4}, and the handler
\* performs exactly one on-phase (one on-wait and one off-wait in all).
C2_SinglePulse ==
  (Handling /\ c \in {"1", "2", "3", "4", "7"}) =>
     /\ pc = "loop_switch" /\ ip = 7 => HighMotors = C2_Motors(c) /\ trace = << >>
     /\ pc = "loop_switch" /\ ip > 7 => trace[1] = C2_Motors(c) /\ step = 1
     /\ pc = "loop_flush" => trace = << C2_Motors(c), {} >>

\* The on-phase wait of command '7', the four motors HIGH.
C2_Witness == pc = "loop_switch" /\ c = "7" /\ ip = 7 /\ HighMotors = {1, 2, 3, 4}

\* The motors HIGH at the successive waits of a sequence that pulses the
\* motors of order one after the other, each pulse followed by an idle gap.
Steps(order) == [i \in 1..(2 * Len(order)) |-> IF i % 2 = 1 THEN {order[(i + 1) \div 2]} ELSE {}]

FollowsSteps(b, order) ==
  (Handling /\ c = b) =>
     /\ IsPrefix(trace, Steps(order))
     /\ pc = "loop_switch" /\ ip \in {7, 14} => HighMotors = Steps(order)[Len(trace) + 1]
     /\ pc = "loop_flush" => trace = Steps(order) /\ HighMotors = {}

\* C3: command '5' performs exactly four steps, motors 1, 2, 4, 3 in that
\* order, the motor alone HIGH during its on-phase wait, and all four
\* motors LOW in the wait that follows each step and when the handler returns.
C3_ClockwiseOrder == FollowsSteps("5", <<1, 2, 4, 3>>)

\* The handler of '5' has returned after its eight waits.
C3_Witness == pc = "loop_flush" /\ c = "5" /\ Len(trace) = 8

\* C4: command '6' performs exactly four steps, motors 1, 3, 4, 2 in that
\* order, each alone HIGH during its on-phase wait and each step followed
\* by an all-LOW wait.
C4_CounterClockwiseOrder == FollowsSteps("6", <<1, 3, 4, 2>>)

\* The third on-phase wait of '6': motor 4 alone is HIGH.
C4_Witness ==
  pc = "loop_switch" /\ c = "6" /\ step = 3 /\ ip = 7 /\ HighMotors = {4}

\* C5: a byte outside '1'..'7' resolves to idle-all: while it is handled
\* control is in no pulse function, no motor is HIGH, no wait is performed,
\* and when the handler has returned the indicator shows white.
C5_InvalidIsIdleAll ==
  (Handling /\ c \notin {"1", "2", "3", "4", "5", "6", "7"}) =>
     /\ fn \in {"stopAllMotors", "none"}
     /\ HighMotors = {}
     /\ trace = << >>
     /\ pc = "loop_flush" => led = <<255, 255, 255>> /\ pixelColor = <<255, 255, 255>>

\* The handler of byte '9' has returned and the indicator shows white.
C5_Witness == pc = "loop_flush" /\ c = "9" /\ led = <<255, 255, 255>>

\* The original wording of C6: every accepted connection has had exactly
\* one byte read from it when loop() closes it.
C6_ExactlyOneRead == pc = "loop_stop" => client.reads = 1

\* C6 (amended): from every accepted connection at most one byte is read,
\* none when the peer closes before sending; a byte read is dispatched to
\* one handler at once; the connection is closed by client.stop() after
\* that handling and before loop() accepts another client.
C6_AtMostOneRead ==
  /\ client.reads <= 1
  /\ Handling => client.live /\ client.reads = 1 /\ c # ""
  /\ pc = "loop_stop" => client.live /\ (client.reads = 1 <=> c # "")
  /\ pc \in {"loop_connected", "loop_available", "loop_read"} =>
       client.live /\ client.reads = 0 /\ c = "" /\ fn = "none"
  /\ pc \notin {"loop_connected", "loop_available", "loop_read", "loop_switch",
                "loop_flush", "loop_stop"} => client = NoClient /\ c = ""

\* A connection about to be closed after its one byte was handled, a
\* second byte of the peer left unread.
C6_Witness == pc = "loop_flush" /\ client.reads = 1 /\ client.avail > 0

\* C7: a motion sequence runs through all of its steps: while it executes
\* no byte is read, the handler and its command do not change, control
\* only moves forward through the blocks, and it leaves the sequence only
\* from the last off-phase wait, all waits of the sequence performed.
C7_RunsToCompletion ==
  [][InSequence =>
       /\ client'.reads = client.reads
       /\ c' = c
       /\ InSequence' => /\ fn' = fn
                         /\ step' > step \/ (step' = step /\ ip' >= ip)
                         /\ IsPrefix(trace, trace')
       /\ ~InSequence' => /\ step = Len(Body(fn)) /\ ip = 14
                          /\ pc' = "loop_flush"
                          /\ Len(trace') = 2 * Len(Body(fn))]_vars

\* The last wait of the clockwise sequence, while the peer has sent a
\* further byte and another connection waits.
C7_Witness ==
  /\ InSequence /\ fn = "clockwisePulse" /\ step = 4 /\ ip = 14
  /\ client.avail > 0 /\ backlog # << >>

InRetry == pc \in {"setup_while", "setup_body", "setup_delay",
                   "loop_while", "loop_body", "loop_delay"}

\* C9: every run of the join / rejoin retry loop makes at most 20
\* attempts and then ends, connected or not: the attempt counter never
\* exceeds 20, an attempt is started only below 20, with 20 attempts made
\* the condition leaves the loop, and control inside the loop always
\* comes out of it.
C9_RetryBounded ==
  /\ [](attempt_count <= 20)
  /\ [](pc \in {"setup_body", "setup_delay", "loop_body", "loop_delay"} => attempt_count < 20)
  /\ [][attempt_count' # attempt_count =>
          attempt_count' = 0 \/ (InRetry /\ attempt_count' = attempt_count + 1)]_vars
  /\ (InRetry ~> ~InRetry)

\* The rejoin loop of loop() has ended after 20 attempts, not connected.
C9_Witness ==
  pc = "loop_if" /\ attempt_count = 20 /\ wifiStatus = "WL_DISCONNECTED"

\* C10: after a retry loop the indicator is given red when the status
\* read there is not connected and green when it is, and the next
\* pixel.show() displays that colour; during the wait of every attempt the
\* indicator shows yellow; WiFi.begin is called once per join, only at the
\* start of setup()'s join or right after the disconnect-detection check
\* of loop(), so a failed join is not retried before the next check.
C10_JoinIndication ==
  [][/\ pc \in {"setup_delay", "loop_delay"} => led = <<255, 255, 0>>
     /\ InRetry /\ attempt_count > 0 => led = <<255, 255, 0>>
     /\ pc \in {"setup_if", "loop_if"} /\ pc' # pc =>
          /\ wifiStatus # "WL_CONNECTED" => pixelColor' = <<255, 0, 0>>
          /\ wifiStatus = "WL_CONNECTED" => pixelColor' = <<0, 255, 0>>
     /\ pc \in {"setup_show", "loop_show"} =>
          /\ pixelColor \in {<<255, 0, 0>>, <<0, 255, 0>>}
          /\ pc' # pc => led' = pixelColor /\ pc' = "loop_accept"
     /\ wifiBegins <= 1
     /\ wifiBegins' > wifiBegins => pc \in {"setup_begin", "loop_begin"}
     /\ pc' = "loop_begin" /\ pc # pc' => pc = "loop_wifi" /\ wifiStatus # "WL_CONNECTED"
    ]_vars

\* A rejoin has failed: red is staged for display, WiFi.begin called once.
C10_Witness ==
  /\ pc = "loop_show" /\ pixelColor = <<255, 0, 0>> /\ led = <<255, 255, 0>>
  /\ wifiBegins = 1

C12_LedFollowsCommand ==
  [][/\ pc = "led_read" /\ pc' # pc =>
          /\ c' = "R" => led' = <<255, 0, 0>>
          /\ c' = "G" => led' = <<0, 255, 0>>
          /\ c' = "B" => led' = <<0, 0, 255>>
          /\ c' \notin {"R", "G", "B"} => led' = led
     /\ led' # led =>
          pc \in {"led_read", "led_setup_body", "led_setup_show", "led_wifi", "led_body",
                  "led_show"}
    ]_vars

\* An invalid byte has been handled and the indicator still shows the
\* blue of an earlier 'B'.
C12_Witness == pc = "led_stop" /\ c = "9" /\ led = <<0, 0, 255>>

\* The state stopAllMotors leaves: motors LOW, white staged and shown.
AllIdle ==
  HighMotors = {} /\ pixelColor = <<255, 255, 255>> /\ led = <<255, 255, 255>>

\* C13: stopAllMotors executed twice in a row gives the state one
\* execution gives: every execution ends with the four motors LOW and the
\* indicator white, and an execution that starts in that state changes no
\* motor output and no indicator colour at any of its steps.
C13_StopIdempotent ==
  [][/\ fn # "none" /\ ip = 13 /\ ip' # ip => AllIdle'
     /\ fn = "stopAllMotors" /\ AllIdle =>
          motor' = motor /\ pixelColor' = pixelColor /\ led' = led
    ]_vars

\* stopAllMotors, called for an invalid byte, is at its last statement in
\* the state the stopAllMotors of the command before it left.
C13_Witness ==
  pc = "loop_switch" /\ fn = "stopAllMotors" /\ ip = 13 /\ AllIdle /\ c = "9"

\* The motor the current step of a command '1'..'6' names.
C14_Named(b, s) ==
  CASE b = "1" -> 1 [] b = "2" -> 2 [] b = "3" -> 3 [] b = "4" -> 4
    [] b = "5" -> <<1, 2, 4, 3>>[s]
    [] b = "6" -> <<1, 3, 4, 2>>[s]

\* C14: with every digitalWrite a step of its own, in every state of the
\* handling of a command '1'..'6', the states between two pin writes
\* included, at most one motor is HIGH and it is the motor the current
\* step names.
C14_AtMostNamedMotorHigh ==
  (Handling /\ c \in {"1", "2", "3", "4", "5", "6"}) =>
     /\ Cardinality(HighMotors) <= 1
     /\ HighMotors \subseteq {C14_Named(c, step)}

\* Between the pin writes of the fourth step of '6': motor 2 is already
\* HIGH, the writes to MOTOR3_PIN and MOTOR4_PIN are still to come.
C14_Witness ==
  pc = "loop_switch" /\ c = "6" /\ step = 4 /\ ip = 3 /\ HighMotors = {2}

\* C15: whenever loop() polls for clients (server.available()) with
\* Wi-Fi connected, server.begin() has been called.
C15_ServerStartedWhenPolling ==
  pc = "loop_accept" /\ wifiStatus = "WL_CONNECTED" => serverStarted

\* C16: every accepted connection is eventually closed and loop() goes on
\* to its disconnect-detection check, whatever the client does.
C16_ConnectionEventuallyClosed == client.live ~> (pc = "loop_wifi" /\ ~client.live)

\* The indicator colour of a step, by the motors the step drives.
C17_StepColor(ms) ==
  CASE ms = {1} -> <<255, 0, 0>>
    [] ms = {2} -> <<0, 255, 0>>
    [] ms = {3} -> <<0, 0, 255>>
    [] ms = {4} -> <<255, 255, 0>>
    [] ms = {1, 2, 3, 4} -> <<0, 255, 255>>

\* C17: during every on-phase wait the indicator shows the colour of the
\* step (red, green, blue, yellow for motors 1, 2, 3, 4, cyan for all);
\* during every off-phase wait and once a command handler has returned it
\* shows white, whatever connectivity colour it showed before.
C17_IndicatorFollowsStep ==
  /\ pc = "loop_switch" /\ ip = 7 => led = C17_StepColor(HighMotors)
  /\ pc = "loop_switch" /\ ip = 14 => led = <<255, 255, 255>>
  /\ pc = "loop_flush" => led = <<255, 255, 255>>

\* The on-phase wait of the third step of '5': motor 4, yellow.
C17_Witness ==
  pc = "loop_switch" /\ c = "5" /\ step = 3 /\ ip = 7 /\ led = <<255, 255, 0>>

====
